---------------------------- MODULE Spec2Model ----------------------------
(***************************************************************************)
(* The clustering core of the customer-segmentation application            *)
(* (src/src/utils/clustering.ts): normalizeData, calculateSilhouetteScore, *)
(* performClustering and findOptimalClusters; and the components that     *)
(* feed it and show its results: FileUpload (src/unnamed/part_002), App    *)
(* (src/src/App.tsx) and Dashboard (src/src/components/Dashboard.tsx).     *)
(*                                                                         *)
(* Numbers.  A JavaScript number that the core computes is modelled as a   *)
(* fixed-point integer counted in units of 1/Scale (so 1.0 is Scale), and  *)
(* a number that may be NaN as the record [nan |-> BOOLEAN, v |-> Int].    *)
(* Raw field values of the records are small integers, as they are.        *)
(***************************************************************************)
EXTENDS Integers, Sequences, FiniteSets, TLC

VARIABLES
    pc,        \* "idle": inputs chosen, nothing called; "scan": inside the loop
               \* of findOptimalClusters; "done": the call has returned or thrown
    call,      \* the call being made: [op |-> ..., k |-> ..., maxK |-> ...]
    data,      \* CustomerRecord[]: the records handed to the core
    exclude,   \* excludeColumns of normalizeData
    matrix,    \* number[][] handed to calculateSilhouetteScore
    clusters,  \* number[] (cluster id per row) handed to calculateSilhouetteScore
    normRet,   \* what normalizeData returned
    silRet,    \* what calculateSilhouetteScore returned
    analysis,  \* what performClustering returned, or the error it threw
    scanK,     \* findOptimalClusters: the loop variable k
    scores,    \* findOptimalClusters: the local array scores
    optimal,   \* what findOptimalClusters returned
    isLoading,        \* FileUpload: useState(false)
    error,            \* FileUpload: useState<string | null>(null)
    success,          \* FileUpload: useState<string | null>(null)
    parses,           \* the Papa.parse jobs whose callback has not run yet
    timers,           \* the setTimeout hand-offs that have not fired yet
    clusterCount,     \* Dashboard: useState(4)
    selectedCluster   \* Dashboard: useState<number | null>(null)

\* In the application data is the state of App (NoData for null) and analysis
\* is the memoized analysis of the Dashboard (NullAnalysis for null).

core == <<pc, call, data, exclude, matrix, clusters, normRet, silRet, analysis,
          scanK, scores, optimal>>

interface == <<isLoading, error, success, parses, timers, clusterCount,
               selectedCluster>>

vars == <<pc, call, data, exclude, matrix, clusters, normRet, silRet, analysis,
          scanK, scores, optimal, isLoading, error, success, parses, timers,
          clusterCount, selectedCluster>>

----------------------------------------------------------------------------
(* Bounds of the model *)

\* most records in a dataset, most rows in a matrix
MaxN == 3

\* most rows in a file uploaded to the application
MaxRows == 4

\* most parse jobs and hand-off timers pending together
MaxPending == 2

\* fixed-point digits: Scale is a multiple of Precision
Precision == 100

\* the raw numbers a numeric field takes
RawNumbers == {0, 1, 2}

\* the cluster ids an assignment handed to calculateSilhouetteScore uses
ClusterIds == {0, 1, 2}

----------------------------------------------------------------------------
(* Arithmetic *)

Min2(a, b) == IF a <= b THEN a ELSE b

Max2(a, b) == IF a >= b THEN a ELSE b

RECURSIVE Gcd(_, _)
Gcd(a, b) == IF b = 0 THEN a ELSE Gcd(b, a % b)

RECURSIVE LcmUpTo(_)
LcmUpTo(n) == IF n <= 1 THEN 1
              ELSE LET l == LcmUpTo(n - 1) IN (l * n) \div Gcd(l, n)

\* 1.0 in fixed point: every quotient by a range of raw numbers and every mean
\* of at most MaxN such quotients is exact.
Scale == Precision * LcmUpTo(Max2(MaxN, MaxRows)) * LcmUpTo(2)

\* x / y rounded toward zero, y > 0
Quot(x, y) == IF x >= 0 THEN x \div y ELSE -((-x) \div y)

RECURSIVE SqrtBetween(_, _, _)
SqrtBetween(x, lo, hi) ==
    IF lo >= hi THEN lo
    ELSE LET mid == (lo + hi + 1) \div 2
         IN  IF mid * mid <= x THEN SqrtBetween(x, mid, hi)
             ELSE SqrtBetween(x, lo, mid - 1)

\* Math.sqrt on a fixed-point square: the largest r with r * r <= x
Sqrt(x) == SqrtBetween(x, 0, Min2(x, 46340))

\* the array f, built once: its elements are computed when it is made, as
\* Array.prototype.map does, and not again at every read
Stored(f) == IF f = f THEN f ELSE f

RECURSIVE SumSeq(_)
SumSeq(s) == IF s = <<>> THEN 0 ELSE Head(s) + SumSeq(Tail(s))

Range(s) == {s[i] : i \in DOMAIN s}

SetMin(S) == CHOOSE x \in S : \A y \in S : x <= y

SetMax(S) == CHOOSE x \in S : \A y \in S : x >= y

\* a number that may be NaN
Num(x) == [nan |-> FALSE, v |-> x]

NaN == [nan |-> TRUE, v |-> 0]

\* x + y
NumAdd(x, y) == IF x.nan \/ y.nan THEN NaN ELSE Num(x.v + y.v)

\* x / n for a count n; 0 / 0 is NaN
NumDivCount(x, n) ==
    IF x.nan THEN NaN
    ELSE IF n = 0 THEN NaN
    ELSE Num(Quot(x.v, n))

\* x > y; every comparison with NaN is false
NumGt(x, y) == ~x.nan /\ ~y.nan /\ x.v > y.v

----------------------------------------------------------------------------
(* Records *)

\* Object.keys of a record, in insertion order
KeyOrder == <<"id", "a", "b">>

Number_(x) == [t |-> "number", v |-> x]

Text == [t |-> "string", v |-> 0]

Undefined == [t |-> "undefined", v |-> 0]

Null == [t |-> "null", v |-> 0]

\* Object.keys(record): the keys the record holds
ObjectKeys(record) ==
    SelectSeq(KeyOrder, LAMBDA key : record[key].t # "undefined")

\* Number(value) || 0 on a raw value
NumberOrZero(value) == IF value.t = "number" THEN value.v ELSE 0

----------------------------------------------------------------------------
(* normalizeData *)

SelectFeaturesOfAnyType(first, excludeColumns) ==
    SelectSeq(ObjectKeys(first), LAMBDA key : key \notin excludeColumns)

\* the filter of lines 42-45
SelectFeatures(first, excludeColumns) ==
    SelectSeq(ObjectKeys(first),
              LAMBDA key : key \notin excludeColumns /\ first[key].t = "number")

RawValuesReversed(d, features) ==
    Stored([r \in DOMAIN d |->
        [i \in DOMAIN features |->
            NumberOrZero(d[Len(d) + 1 - r][features[i]])]])

\* lines 47-49
RawValues(d, features) ==
    Stored([r \in DOMAIN d |->
        [i \in DOMAIN features |-> NumberOrZero(d[r][features[i]])]])

NormalizeValueNoShift(val, min, max) ==
    LET range == max - min
    IN  IF range = 0 THEN 0 ELSE Quot(val * Scale, range)

\* lines 56-59
NormalizeValue(val, min, max) ==
    LET range == max - min
    IN  IF range = 0 THEN 0 ELSE Quot((val - min) * Scale, range)

normalizeData(d, excludeColumns) ==
    LET features == SelectFeatures(d[1], excludeColumns)
        values == RawValues(d, features)
        mins == [i \in DOMAIN features |-> SetMin({values[r][i] : r \in DOMAIN d})]
        maxs == [i \in DOMAIN features |-> SetMax({values[r][i] : r \in DOMAIN d})]
        normalized ==
            Stored([r \in DOMAIN d |->
                [i \in DOMAIN features |->
                    NormalizeValue(values[r][i], mins[i], maxs[i])]])
    IN  [status |-> "ok", normalized |-> normalized, features |-> features]

----------------------------------------------------------------------------
(* calculateSilhouetteScore *)

\* lines 27-39 on two rows of one matrix (rows of a matrix have one length, so
\* the length check of lines 28-30 never throws)
euclidean(a, b) ==
    Sqrt(SumSeq([i \in DOMAIN a |-> (a[i] - b[i]) * (a[i] - b[i])]))

\* the sum of euclidean(m[i], m[j]) over the rows j in the set idxs
RECURSIVE SumDistances(_, _, _)
SumDistances(m, i, idxs) ==
    IF idxs = {} THEN 0
    ELSE LET j == CHOOSE x \in idxs : TRUE
         IN  euclidean(m[i], m[j]) + SumDistances(m, i, idxs \ {j})

\* lines 73-76: a(i)
AvgSameCluster(m, cl, i) ==
    LET sameClusterPoints == {idx \in DOMAIN m : cl[idx] = cl[i] /\ idx # i}
    IN  IF Cardinality(sameClusterPoints) > 0
        THEN Quot(SumDistances(m, i, sameClusterPoints),
                  Cardinality(sameClusterPoints))
        ELSE 0

Infinity == [inf |-> TRUE, v |-> 0]

Finite(x) == [inf |-> FALSE, v |-> x]

\* lines 79-88: b(i), Infinity when no other cluster has a point
MinAvgOtherCluster(m, cl, i) ==
    LET otherClusters == Range(cl) \ {cl[i]}
        avgDistance(c) ==
            LET otherClusterPoints == {idx \in DOMAIN m : cl[idx] = c}
            IN  Quot(SumDistances(m, i, otherClusterPoints),
                     Cardinality(otherClusterPoints))
    IN  IF otherClusters = {} THEN Infinity
        ELSE Finite(SetMin({avgDistance(c) : c \in otherClusters}))

PointSilhouetteOneWhenAlone(aI, bI) ==
    IF bI.inf THEN Num(Scale)
    ELSE IF Max2(aI, bI.v) = 0 THEN NaN
    ELSE Num(Quot((bI.v - aI) * Scale, Max2(aI, bI.v)))

\* line 91: bI === Infinity ? 0 : (bI - aI) / Math.max(aI, bI); 0 / 0 is NaN
PointSilhouette(aI, bI) ==
    IF bI.inf THEN Num(0)
    ELSE IF Max2(aI, bI.v) = 0 THEN NaN
    ELSE Num(Quot((bI.v - aI) * Scale, Max2(aI, bI.v)))

\* lines 67-93: totalScore after the rows 1..i
RECURSIVE TotalScore(_, _, _)
TotalScore(m, cl, i) ==
    IF i = 0 THEN Num(0)
    ELSE NumAdd(TotalScore(m, cl, i - 1),
                PointSilhouette(AvgSameCluster(m, cl, i),
                                MinAvgOtherCluster(m, cl, i)))

calculateSilhouetteScore(m, cl) ==
    NumDivCount(TotalScore(m, cl, Len(m)), Len(m))

----------------------------------------------------------------------------
(* kmeans: the clusterer performClustering calls at line 105.  The library  *)
(* is no part of the sources; it is modelled from section 4.2 of the        *)
(* specification: k initial centroids, then Lloyd's iteration.  The         *)
(* initialization is not fixed by the call (no seed is passed), so the      *)
(* initial centroids are any k rows of the matrix.                          *)

\* the option passed at line 105
MaxIterations == 100

\* squared Euclidean distance: the nearest centroid under it is the nearest
\* centroid under the Euclidean distance, with no rounding
SquaredDistance(a, b) ==
    SumSeq([i \in DOMAIN a |-> (a[i] - b[i]) * (a[i] - b[i])])

\* the id (0-based) of the centroid nearest to the row, the lowest id on a tie
NearestCentroid(row, centroids) ==
    LET distance == Stored([j \in DOMAIN centroids |->
                              SquaredDistance(row, centroids[j])])
    IN  (CHOOSE j \in DOMAIN centroids :
            \A l \in DOMAIN centroids :
                /\ distance[j] <= distance[l]
                /\ l < j => distance[l] > distance[j]) - 1

AssignRows(m, centroids) ==
    Stored([i \in DOMAIN m |-> NearestCentroid(m[i], centroids)])

RECURSIVE SumColumn(_, _, _)
SumColumn(m, idxs, c) ==
    IF idxs = {} THEN 0
    ELSE LET i == CHOOSE x \in idxs : TRUE
         IN  m[i][c] + SumColumn(m, idxs \ {i}, c)

\* the mean of each cluster's rows; a cluster without rows keeps its centroid
UpdateCentroids(m, assignment, centroids) ==
    Stored([j \in DOMAIN centroids |->
        LET members == {i \in DOMAIN m : assignment[i] = j - 1}
        IN  IF members = {} THEN centroids[j]
            ELSE [c \in DOMAIN centroids[j] |->
                    Quot(SumColumn(m, members, c), Cardinality(members))]])

RECURSIVE Lloyd(_, _, _, _)
Lloyd(m, centroids, previous, iteration) ==
    LET assignment == AssignRows(m, centroids)
        updated == UpdateCentroids(m, assignment, centroids)
    IN  IF assignment = previous \/ iteration >= MaxIterations
        THEN [clusters |-> assignment, centroids |-> updated]
        ELSE Lloyd(m, updated, assignment, iteration + 1)

\* the initializations: k different rows, in any order
Initializations(n, k) ==
    {init \in [1..k -> 1..n] : \A x, y \in 1..k : x # y => init[x] # init[y]}

kmeans(m, k, init) ==
    Lloyd(m, Stored([j \in 1..k |-> m[init[j]]]), <<>>, 1)

----------------------------------------------------------------------------
(* performClustering *)

CLUSTER_COLORS ==
    <<"#3b82f6", "#10b981", "#f59e0b", "#ef4444",
      "#8b5cf6", "#06b6d4", "#f97316", "#84cc16">>

CLUSTER_NAMES ==
    <<"High-Value Customers", "Budget-Conscious", "Frequent Buyers",
      "Occasional Shoppers", "Premium Seekers", "Deal Hunters",
      "Loyal Customers", "New Customers">>

RECURSIVE SumRaw(_, _, _)
SumRaw(d, idxs, feature) ==
    IF idxs = {} THEN 0
    ELSE LET i == CHOOSE x \in idxs : TRUE
         IN  NumberOrZero(d[i][feature]) + SumRaw(d, idxs \ {i}, feature)

CharacteristicNormalized(d, members, feature) ==
    LET norm == normalizeData(d, {"id"})
        c == CHOOSE i \in DOMAIN norm.features : norm.features[i] = feature
    IN  NumDivCount(Num(SumColumn(norm.normalized, members, c)),
                    Cardinality(members))

\* lines 122-125: the mean of the members' raw values; 0 / 0 is NaN
Characteristic(d, members, feature) ==
    NumDivCount(Num(SumRaw(d, members, feature) * Scale), Cardinality(members))

ClusterSummaryOfNextName(d, features, assignment, i) ==
    LET clusterData == {index \in DOMAIN d : assignment[index] = i}
    IN  [clusterId |-> i,
         count |-> Cardinality(clusterData),
         characteristics |->
            [f \in Range(features) |-> Characteristic(d, clusterData, f)],
         color |-> CLUSTER_COLORS[(i % Len(CLUSTER_COLORS)) + 1],
         name |-> CLUSTER_NAMES[((i + 1) % Len(CLUSTER_NAMES)) + 1]]

\* lines 118-133: the summary pushed for cluster id i
ClusterSummaryOf(d, features, assignment, i) ==
    LET clusterData == {index \in DOMAIN d : assignment[index] = i}
    IN  [clusterId |-> i,
         count |-> Cardinality(clusterData),
         characteristics |->
            [f \in Range(features) |-> Characteristic(d, clusterData, f)],
         color |-> CLUSTER_COLORS[(i % Len(CLUSTER_COLORS)) + 1],
         name |-> CLUSTER_NAMES[(i % Len(CLUSTER_NAMES)) + 1]]

ClusterSummariesFromOne(d, features, assignment, k) ==
    [j \in 1..(k - 1) |-> ClusterSummaryOf(d, features, assignment, j)]

\* lines 116-134: the loop for (let i = 0; i < k; i++)
ClusterSummaries(d, features, assignment, k) ==
    [j \in 1..k |-> ClusterSummaryOf(d, features, assignment, j - 1)]

InsufficientData == [status |-> "error", error |-> "Not enough data points"]

\* line 101, negated: the call goes on to kmeans
EnoughData(n, k) == ~(n < k)

\* lines 105-141, given the initialization kmeans draws
performClustering(d, k, init) ==
    LET norm == normalizeData(d, {"id"})
        result == kmeans(norm.normalized, k, init)
        clusterResults ==
            [index \in DOMAIN d |->
                [cluster |-> result.clusters[index],
                 data |-> d[index],
                 centroid |-> result.centroids[result.clusters[index] + 1]]]
    IN  [status |-> "ok",
         clusters |-> clusterResults,
         centroids |-> result.centroids,
         silhouetteScore |->
            calculateSilhouetteScore(norm.normalized, result.clusters),
         clusterSummaries |->
            ClusterSummaries(d, norm.features, result.clusters, k)]

\* what performClustering(d, k) may return or throw
PerformOutcomes(d, k) ==
    IF ~EnoughData(Len(d), k) THEN {InsufficientData}
    ELSE {performClustering(d, k, init) : init \in Initializations(Len(d), k)}

----------------------------------------------------------------------------
(* findOptimalClusters *)

BetterOrEqual(current, best) ==
    NumGt(current.score, best.score) \/ current.score = best.score

\* line 162: current.score > best.score
Better(current, best) == NumGt(current.score, best.score)

\* lines 161-163: scores.reduce from index i on, best so far given
RECURSIVE Reduce(_, _, _)
Reduce(s, i, best) ==
    IF i > Len(s) THEN best
    ELSE Reduce(s, i + 1, IF Better(s[i], best) THEN s[i] ELSE best)

SelectOptimalFallbackOne(s) ==
    IF Len(s) = 0 THEN [status |-> "ok", k |-> 1, scores |-> <<>>]
    ELSE [status |-> "ok", k |-> Reduce(s, 2, s[1]).k, scores |-> s]

\* lines 156-165
SelectOptimal(s) ==
    IF Len(s) = 0 THEN [status |-> "ok", k |-> 2, scores |-> <<>>]
    ELSE [status |-> "ok", k |-> Reduce(s, 2, s[1]).k, scores |-> s]

\* line 147: the loop bound
ScanBound(maxK, n) == Min2(maxK, n)

----------------------------------------------------------------------------
(* Inputs *)

FieldValues == {Number_(x) : x \in RawNumbers} \cup {Text, Undefined}

\* a parsed record: id is the row's identifier, a and b are its columns
Records == {[id |-> Text, a |-> va, b |-> vb] : va \in FieldValues, vb \in FieldValues}

SeqsUpTo(S, n) == UNION {[1..m -> S] : m \in 1..n}

Datasets == SeqsUpTo(Records, MaxN)

ExcludeSets == {{"id"}, {"id", "a"}}

NoCall == [op |-> "none", k |-> 0, maxK |-> 0]

\* a message of FileUpload; the success message names two counts
Message(text, records, features) ==
    [text |-> text, records |-> records, features |-> features]

\* null where a message may stand
NoMessage == Message("null", 0, 0)

\* Dashboard.tsx line 14
DefaultClusterCount == 4

\* the useState defaults of FileUpload (part_002 lines 11-14) and of Dashboard
\* (Dashboard.tsx lines 14-15), with nothing pending
InitInterface ==
    /\ isLoading = FALSE
    /\ error = NoMessage
    /\ success = NoMessage
    /\ parses = <<>>
    /\ timers = <<>>
    /\ clusterCount = DefaultClusterCount
    /\ selectedCluster = Null

None == [status |-> "none"]

----------------------------------------------------------------------------
(* normalizeData on its own *)

InitNormalize ==
    /\ pc = "idle"
    /\ call = NoCall
    /\ data \in Datasets
    /\ exclude = {}
    /\ matrix = <<>>
    /\ clusters = <<>>
    /\ normRet = None
    /\ silRet = None
    /\ analysis = None
    /\ scanK = 0
    /\ scores = <<>>
    /\ optimal = None
    /\ InitInterface

CallNormalizeData ==
    /\ pc = "idle"
    /\ \E excludeColumns \in ExcludeSets :
          /\ exclude' = excludeColumns
          /\ normRet' = normalizeData(data, excludeColumns)
    /\ pc' = "done"
    /\ call' = [op |-> "normalizeData", k |-> 0, maxK |-> 0]
    /\ UNCHANGED <<data, matrix, clusters, silRet, analysis, scanK, scores,
                   optimal>>
    /\ UNCHANGED interface

NextNormalize == CallNormalizeData

SpecNormalize == InitNormalize /\ [][NextNormalize]_vars

----------------------------------------------------------------------------
(* calculateSilhouetteScore on its own *)

\* the corners of the unit square
Points == {<<x, y>> : x \in {0, Scale}, y \in {0, Scale}}

InitSilhouette ==
    /\ pc = "idle"
    /\ call = NoCall
    /\ data = <<>>
    /\ exclude = {}
    /\ \E n \in 1..MaxN :
          /\ matrix \in [1..n -> Points]
          /\ clusters \in [1..n -> ClusterIds]
    /\ normRet = None
    /\ silRet = None
    /\ analysis = None
    /\ scanK = 0
    /\ scores = <<>>
    /\ optimal = None
    /\ InitInterface

CallSilhouetteScore ==
    /\ pc = "idle"
    /\ pc' = "done"
    /\ call' = [op |-> "calculateSilhouetteScore", k |-> 0, maxK |-> 0]
    /\ silRet' = [status |-> "ok", score |-> calculateSilhouetteScore(matrix, clusters)]
    /\ UNCHANGED <<data, exclude, matrix, clusters, normRet, analysis, scanK,
                   scores, optimal>>
    /\ UNCHANGED interface

NextSilhouette == CallSilhouetteScore

SpecSilhouette == InitSilhouette /\ [][NextSilhouette]_vars

----------------------------------------------------------------------------
(* performClustering and findOptimalClusters on a dataset *)

\* the records of the datasets clustered: column a is numeric, column b is
\* numeric or text
ClusteredRecords ==
    {[id |-> Text, a |-> Number_(x), b |-> vb] :
        x \in {0, 1}, vb \in {Number_(1), Text}}

\* the values of maxK tried (8 is the default)
MaxKValues == {1, 2, 8}

Init ==
    /\ pc = "idle"
    /\ call = NoCall
    /\ data \in SeqsUpTo(ClusteredRecords, MaxN)
    /\ exclude = {}
    /\ matrix = <<>>
    /\ clusters = <<>>
    /\ normRet = None
    /\ silRet = None
    /\ analysis = None
    /\ scanK = 0
    /\ scores = <<>>
    /\ optimal = None
    /\ InitInterface

CallPerformClustering ==
    /\ pc = "idle"
    /\ \E k \in 1..(MaxN + 1) :
          /\ call' = [op |-> "performClustering", k |-> k, maxK |-> 0]
          /\ \E outcome \in PerformOutcomes(data, k) : analysis' = outcome
    /\ pc' = "done"
    /\ UNCHANGED <<data, exclude, matrix, clusters, normRet, silRet, scanK,
                   scores, optimal>>
    /\ UNCHANGED interface

\* lines 144-147: the call, up to the first test of the loop condition
FindOptimalStart ==
    /\ pc = "idle"
    /\ \E maxK \in MaxKValues :
          call' = [op |-> "findOptimalClusters", k |-> 0, maxK |-> maxK]
    /\ scanK' = 2
    /\ scores' = <<>>
    /\ pc' = "scan"
    /\ UNCHANGED <<data, exclude, matrix, clusters, normRet, silRet, analysis,
                   optimal>>
    /\ UNCHANGED interface

\* lines 147-154: one pass of the loop body; a throw breaks out of the loop and
\* the function goes on to return
FindOptimalTry ==
    /\ pc = "scan"
    /\ scanK <= ScanBound(call.maxK, Len(data))
    /\ \E outcome \in PerformOutcomes(data, scanK) :
          IF outcome.status = "error"
          THEN /\ optimal' = SelectOptimal(scores)
               /\ pc' = "done"
               /\ UNCHANGED <<scanK, scores>>
          ELSE /\ scores' = Append(scores, [k |-> scanK,
                                            score |-> outcome.silhouetteScore])
               /\ scanK' = scanK + 1
               /\ UNCHANGED <<pc, optimal>>
    /\ UNCHANGED <<call, data, exclude, matrix, clusters, normRet, silRet,
                   analysis>>
    /\ UNCHANGED interface

\* lines 147, 156-165: the loop condition fails and the function returns
FindOptimalReturn ==
    /\ pc = "scan"
    /\ ~(scanK <= ScanBound(call.maxK, Len(data)))
    /\ optimal' = SelectOptimal(scores)
    /\ pc' = "done"
    /\ UNCHANGED <<call, data, exclude, matrix, clusters, normRet, silRet,
                   analysis, scanK, scores>>
    /\ UNCHANGED interface

Next == CallPerformClustering \/ FindOptimalStart \/ FindOptimalTry \/ FindOptimalReturn

Spec == Init /\ [][Next]_vars

----------------------------------------------------------------------------
(* performClustering invoked a second time on the same data and k *)

\* lines 98-141 again, with the arguments of the call that has returned:
\* kmeans is given no seed (line 105) and draws its initialization anew
RepeatPerformClustering ==
    /\ pc = "done"
    /\ call.op = "performClustering"
    /\ \E outcome \in PerformOutcomes(data, call.k) : analysis' = outcome
    /\ pc' = "repeated"
    /\ UNCHANGED <<call, data, exclude, matrix, clusters, normRet, silRet,
                   scanK, scores, optimal>>
    /\ UNCHANGED interface

NextRepeat == CallPerformClustering \/ RepeatPerformClustering

SpecRepeat == Init /\ [][NextRepeat]_vars

----------------------------------------------------------------------------
(* FileUpload *)

\* the text of a CSV cell: nothing but blanks, a finite number, other text
Blank == [t |-> "blank", v |-> 0]

Digits(x) == [t |-> "digits", v |-> x]

Word == [t |-> "word", v |-> 0]

\* part_002 lines 35-47: the transform Papa.parse applies to every cell
transform(cell) ==
    IF cell.t = "blank" THEN Null
    ELSE IF cell.t = "digits" THEN Number_(cell.v)
    ELSE Text

\* a File: its name ends in .csv or not; Papa.parse reads it (complete) or
\* fails (error); results.errors is empty or not; its lines under the header
\* id,a,b
CsvFile(rows) == [csv |-> TRUE, readable |-> TRUE, errors |-> FALSE, rows |-> rows]

NotCsv == [csv |-> FALSE, readable |-> TRUE, errors |-> FALSE, rows |-> <<>>]

Unreadable == [csv |-> TRUE, readable |-> FALSE, errors |-> FALSE, rows |-> <<>>]

Malformed == [csv |-> TRUE, readable |-> TRUE, errors |-> TRUE, rows |-> <<>>]

\* results.data: one object per line, its cells transformed
rawData(file) ==
    [r \in DOMAIN file.rows |->
        [key \in Range(KeyOrder) |-> transform(file.rows[r][key])]]

\* lines 67-69 (transform never leaves '')
validData(raw) ==
    SelectSeq(raw, LAMBDA row : \E key \in DOMAIN row : row[key] # Null)

\* a value that || keeps
Truthy(value) ==
    value.t = "string" \/ (value.t = "number" /\ value.v # 0)

\* lines 80-91: the id, or customer_<index + 1>, and every other field that is
\* not null (the header has no customer_id or customerId column)
processedRecord(record) ==
    [key \in DOMAIN record |->
        IF key = "id" THEN (IF Truthy(record[key]) THEN record[key] ELSE Text)
        ELSE IF record[key] # Null THEN record[key]
        ELSE Undefined]

\* lines 79-92
processedData(valid) == [i \in DOMAIN valid |-> processedRecord(valid[i])]

numericColumnsWithId(sampleRecord) ==
    SelectSeq(ObjectKeys(sampleRecord),
              LAMBDA key : sampleRecord[key].t = "number")

\* lines 97-100
numericColumns(sampleRecord) ==
    SelectSeq(ObjectKeys(sampleRecord),
              LAMBDA key : key # "id" /\ sampleRecord[key].t = "number")

\* lines 48-115: what the complete callback sets and schedules for a file
Verdict(file) ==
    LET raw == rawData(file)
        valid == validData(raw)
        processed == processedData(valid)
        Rejected(text) ==
            [error |-> Message(text, 0, 0), success |-> NoMessage, handOff |-> <<>>]
    IN  IF file.errors THEN Rejected("Error parsing CSV")
        ELSE IF Len(raw) = 0
            THEN Rejected("CSV file is empty or could not be parsed")
        ELSE IF Len(valid) < 2
            THEN Rejected("CSV must contain at least 2 valid records for clustering")
        ELSE IF Len(numericColumns(processed[1])) < 2
            THEN Rejected("CSV must contain at least 2 numeric columns for clustering analysis")
        ELSE [error |-> NoMessage,
              success |-> Message("Successfully loaded", Len(processed),
                                  Len(numericColumns(processed[1]))),
              handOff |-> <<processed>>]

\* a sequence without its j-th entry
Remove(s, j) == [i \in 1..(Len(s) - 1) |-> IF i < j THEN s[i] ELSE s[i + 1]]

\* null as the data of App
NoData == <<>>

\* App.tsx lines 18-20: FileUpload is rendered while data is null
Mounted == data = NoData

\* lines 16-122: processFile, up to the return of Papa.parse
processFile(file) ==
    IF ~file.csv
    THEN /\ error' = Message("Please upload a CSV file", 0, 0)
         /\ UNCHANGED <<isLoading, success, parses>>
    ELSE /\ isLoading' = TRUE
         /\ error' = NoMessage
         /\ success' = NoMessage
         /\ parses' = Append(parses, [file |-> file, live |-> TRUE])

\* lines 124-133 and 145-155: a file dropped on the zone, which takes no
\* pointer events while isLoading
handleDrop(file) ==
    /\ Mounted
    /\ ~isLoading
    /\ Len(parses) + Len(timers) < MaxPending
    /\ processFile(file)
    /\ UNCHANGED <<timers, clusterCount, selectedCluster>>
    /\ UNCHANGED core

\* lines 135-141 and 156-162: a file chosen through the input, which is
\* disabled while isLoading or success
handleFileInput(file) ==
    /\ Mounted
    /\ ~isLoading
    /\ success = NoMessage
    /\ Len(parses) + Len(timers) < MaxPending
    /\ processFile(file)
    /\ UNCHANGED <<timers, clusterCount, selectedCluster>>
    /\ UNCHANGED core

\* lines 48-115: the complete callback of a parse job; the state updates of a
\* FileUpload that is no longer rendered are dropped, the timer is set anyway
ParseComplete ==
    \E j \in DOMAIN parses :
        /\ parses[j].file.readable
        /\ LET verdict == Verdict(parses[j].file)
           IN  /\ timers' = timers \o verdict.handOff
               /\ IF parses[j].live
                  THEN /\ isLoading' = FALSE
                       /\ error' = IF verdict.error # NoMessage
                                   THEN verdict.error ELSE error
                       /\ success' = IF verdict.success # NoMessage
                                     THEN verdict.success ELSE success
                  ELSE UNCHANGED <<isLoading, error, success>>
        /\ parses' = Remove(parses, j)
        /\ UNCHANGED <<clusterCount, selectedCluster>>
        /\ UNCHANGED core

\* lines 116-120: the error callback of a parse job
ParseError ==
    \E j \in DOMAIN parses :
        /\ ~parses[j].file.readable
        /\ IF parses[j].live
           THEN /\ isLoading' = FALSE
                /\ error' = Message("Failed to parse CSV", 0, 0)
           ELSE UNCHANGED <<isLoading, error>>
        /\ parses' = Remove(parses, j)
        /\ UNCHANGED <<success, timers, clusterCount, selectedCluster>>
        /\ UNCHANGED core

----------------------------------------------------------------------------
(* FileUpload on its own, under a parent that keeps it rendered *)

\* a line without a value; a line with two numbers; a line with a numeric id,
\* one number and text
EmptyRow == [id |-> Blank, a |-> Blank, b |-> Blank]

UploadRows ==
    {EmptyRow,
     [id |-> Blank, a |-> Digits(1), b |-> Digits(1)],
     [id |-> Digits(1), a |-> Digits(1), b |-> Word]}

UploadFiles ==
    {NotCsv, Unreadable, Malformed}
        \cup {CsvFile(rows) : rows \in {<<>>} \cup SeqsUpTo(UploadRows, MaxN)}

\* an onDataLoad that does not touch FileUpload
KeepRendered(customerData) ==
    /\ UNCHANGED <<isLoading, error, success, parses, clusterCount,
                   selectedCluster>>
    /\ UNCHANGED core

\* lines 112-114: the oldest timer fires and calls onDataLoad(processedData)
TimerFiresKeepRendered ==
    /\ timers # <<>>
    /\ timers' = Tail(timers)
    /\ KeepRendered(Head(timers))

InitUpload ==
    /\ pc = "idle"
    /\ call = NoCall
    /\ data = NoData
    /\ exclude = {}
    /\ matrix = <<>>
    /\ clusters = <<>>
    /\ normRet = None
    /\ silRet = None
    /\ analysis = None
    /\ scanK = 0
    /\ scores = <<>>
    /\ optimal = None
    /\ InitInterface

NextUpload ==
    \/ \E file \in UploadFiles : handleDrop(file)
    \/ \E file \in UploadFiles : handleFileInput(file)
    \/ ParseComplete
    \/ ParseError
    \/ TimerFiresKeepRendered

SpecUpload == InitUpload /\ [][NextUpload]_vars

----------------------------------------------------------------------------
(* The application: App renders FileUpload until it is handed data, then *)
(* Dashboard until it is reset.  xFeature, yFeature and optimalAnalysis of   *)
(* Dashboard only label and plot what is shown and are not part of the state *)

\* Dashboard.tsx lines 35-42: null when performClustering throws
NullAnalysis == [status |-> "null"]

\* Dashboard.tsx lines 35-42: what useMemo may hold for the data and count
DashboardAnalyses(d, k) ==
    {IF outcome.status = "error" THEN NullAnalysis ELSE outcome :
        outcome \in PerformOutcomes(d, k)}

\* Dashboard.tsx line 133: the options of the cluster-count select
OfferedCounts(n) == {i + 2 : i \in 0..(Min2(8, n - 1) - 1)}

\* Dashboard.tsx lines 79-88: the controls are rendered only with an analysis
ControlsShown == ~Mounted /\ analysis.status = "ok"

\* App.tsx lines 10-12 and the render that follows.  When FileUpload was
\* showing it is replaced by a new Dashboard: the state of FileUpload is
\* dropped (the next FileUpload starts from its defaults) and its parse jobs
\* go on without it.  When a Dashboard is showing it stays, with new data.
handleDataLoad(customerData) ==
    /\ data' = customerData
    /\ IF Mounted
       THEN /\ isLoading' = FALSE
            /\ error' = NoMessage
            /\ success' = NoMessage
            /\ parses' = [j \in DOMAIN parses |-> [parses[j] EXCEPT !.live = FALSE]]
            /\ clusterCount' = DefaultClusterCount
            /\ selectedCluster' = Null
            /\ analysis' \in DashboardAnalyses(customerData, DefaultClusterCount)
       ELSE /\ UNCHANGED <<isLoading, error, success, parses, clusterCount,
                           selectedCluster>>
            /\ analysis' \in DashboardAnalyses(customerData, clusterCount)
    /\ UNCHANGED <<pc, call, exclude, matrix, clusters, normRet, silRet, scanK,
                   scores, optimal>>

\* Dashboard.tsx lines 128-131: another option of the cluster-count select
setClusterCount ==
    /\ ControlsShown
    /\ \E k \in OfferedCounts(Len(data)) \ {clusterCount} :
          /\ clusterCount' = k
          /\ analysis' \in DashboardAnalyses(data, k)
    /\ UNCHANGED <<pc, call, data, exclude, matrix, clusters, normRet, silRet,
                   scanK, scores, optimal>>
    /\ UNCHANGED <<isLoading, error, success, parses, timers, selectedCluster>>

\* Dashboard.tsx lines 179-190: another option of the cluster filter, All
\* Clusters (null) or the id of a summary
setSelectedCluster ==
    /\ ControlsShown
    /\ \E option \in {Null} \cup
             {Number_(analysis.clusterSummaries[j].clusterId) :
                 j \in DOMAIN analysis.clusterSummaries} :
          /\ option # selectedCluster
          /\ selectedCluster' = option
    /\ UNCHANGED core
    /\ UNCHANGED <<isLoading, error, success, parses, timers, clusterCount>>

\* App.tsx lines 14-16, from the New Analysis button (Dashboard.tsx lines
\* 108-114): the Dashboard and its state go, a new FileUpload is rendered
handleReset ==
    /\ ControlsShown
    /\ data' = NoData
    /\ analysis' = None
    /\ clusterCount' = DefaultClusterCount
    /\ selectedCluster' = Null
    /\ UNCHANGED <<pc, call, exclude, matrix, clusters, normRet, silRet, scanK,
                   scores, optimal>>
    /\ UNCHANGED <<isLoading, error, success, parses, timers>>

\* part_002 lines 112-114: the oldest timer fires and calls onDataLoad, which
\* is handleDataLoad (App.tsx line 91)
TimerFires ==
    /\ timers # <<>>
    /\ timers' = Tail(timers)
    /\ handleDataLoad(Head(timers))

\* the lines of the files uploaded to the application: a line with two
\* numbers, then a line with a numeric id, one number and text, and so on
AppRow(r) ==
    IF r % 2 = 1 THEN [id |-> Blank, a |-> Digits(1), b |-> Digits(1)]
    ELSE [id |-> Digits(1), a |-> Digits(1), b |-> Word]

AppFiles ==
    {NotCsv, Unreadable}
        \cup {CsvFile([r \in 1..n |-> AppRow(r)]) : n \in 0..MaxRows}

NextApp ==
    \/ \E file \in AppFiles : handleDrop(file)
    \/ \E file \in AppFiles : handleFileInput(file)
    \/ ParseComplete
    \/ ParseError
    \/ TimerFires
    \/ setClusterCount
    \/ setSelectedCluster
    \/ handleReset

SpecApp == InitUpload /\ [][NextApp]_vars

----------------------------------------------------------------------------
(* Properties *)

DoneWith(op) == pc = "done" /\ call.op = op

\* the candidates the documentation allows: 2 .. min(maxK, n - 1)
AllowedK(maxK, n) == 2..Min2(maxK, n - 1)

\* C1: when findOptimalClusters returns a non-empty scores list, the returned k
\* and the k of every entry lie in [2, min(maxK, n - 1)]; k = n is never tried.
C1_ScanWithinRange ==
    (DoneWith("findOptimalClusters") /\ Len(optimal.scores) > 0) =>
        /\ optimal.k \in AllowedK(call.maxK, Len(data))
        /\ \A j \in DOMAIN optimal.scores :
              optimal.scores[j].k \in AllowedK(call.maxK, Len(data))

\* C2: performClustering(data, k) throws the insufficient-data error whenever
\* k >= n, k = n included, and returns no analysis then.
C2_ThrowsWhenKAtLeastN ==
    (DoneWith("performClustering") /\ call.k >= Len(data)) =>
        analysis.status = "error"

\* the fields of the first record that are not excluded and are numeric
EligibleFields(d, excludeColumns) ==
    {key \in Range(KeyOrder) : key \notin excludeColumns /\ d[1][key].t = "number"}

\* C3: normalizeData fails when fewer than 2 fields of the first record are
\* eligible; it never returns a feature set of 0 or 1 features.
C3_FeatureShortage ==
    DoneWith("normalizeData") =>
        /\ Cardinality(EligibleFields(data, exclude)) < 2 => normRet.status = "error"
        /\ normRet.status = "ok" => Len(normRet.features) >= 2

\* C4: calculateSilhouetteScore never yields NaN: a point whose a(i) and b(i)
\* are both 0 has silhouette 0, and the score is a number.
C4_NoNaN ==
    DoneWith("calculateSilhouetteScore") =>
        /\ ~silRet.score.nan
        /\ \A i \in DOMAIN matrix :
              (AvgSameCluster(matrix, clusters, i) = 0
               /\ MinAvgOtherCluster(matrix, clusters, i) = Finite(0)) =>
                  PointSilhouette(AvgSameCluster(matrix, clusters, i),
                                  MinAvgOtherCluster(matrix, clusters, i)) = Num(0)

\* C5: for every non-empty matrix and every assignment, the score returned by
\* calculateSilhouetteScore is a value in [-1, 1].
C5_ScoreInRange ==
    DoneWith("calculateSilhouetteScore") =>
        /\ ~silRet.score.nan
        /\ -Scale <= silRet.score.v
        /\ silRet.score.v <= Scale

\* C6: when every row is in one cluster, calculateSilhouetteScore returns
\* exactly 0, whatever the coordinates.
C6_SingleClusterZero ==
    (DoneWith("calculateSilhouetteScore") /\ Cardinality(Range(clusters)) = 1) =>
        silRet.score = Num(0)

\* C6 happens: one cluster holding rows at different coordinates has been scored
C6_Witness ==
    /\ DoneWith("calculateSilhouetteScore")
    /\ Cardinality(Range(clusters)) = 1
    /\ Len(matrix) >= 3
    /\ matrix[1] # matrix[2]
    /\ matrix[2] # matrix[3]

\* C7: the k findOptimalClusters returns is the k of an entry of scores whose
\* score is the maximum recorded, the smallest such k on a tie.
C7_FirstMaximum ==
    (DoneWith("findOptimalClusters") /\ Len(optimal.scores) > 0) =>
        \E j \in DOMAIN optimal.scores :
            /\ optimal.scores[j].k = optimal.k
            /\ ~optimal.scores[j].score.nan
            /\ \A l \in DOMAIN optimal.scores :
                  /\ ~optimal.scores[l].score.nan
                  /\ optimal.scores[l].score.v <= optimal.scores[j].score.v
                  /\ optimal.scores[l].score.v = optimal.scores[j].score.v =>
                        optimal.scores[j].k <= optimal.scores[l].k

\* C7 happens: the maximum is recorded twice and the first of the two is returned
C7_Witness ==
    /\ DoneWith("findOptimalClusters")
    /\ Len(optimal.scores) >= 2
    /\ optimal.scores[1].score = optimal.scores[2].score
    /\ optimal.k = optimal.scores[1].k

\* C8: a completed performClustering(data, k) has exactly k summaries, with
\* clusterId 0, 1, ..., k-1 in this order, whose counts add up to n.
C8_SummariesCoverRecords ==
    (DoneWith("performClustering") /\ analysis.status = "ok") =>
        /\ Len(analysis.clusterSummaries) = call.k
        /\ \A j \in 1..call.k : analysis.clusterSummaries[j].clusterId = j - 1
        /\ SumSeq([j \in 1..call.k |-> analysis.clusterSummaries[j].count])
              = Len(data)

\* C8 happens: a clustering into 2 or more clusters, none of them empty and one
\* of them with several records, has completed
C8_Witness ==
    /\ DoneWith("performClustering")
    /\ analysis.status = "ok"
    /\ call.k >= 2
    /\ \A j \in 1..call.k : analysis.clusterSummaries[j].count >= 1
    /\ \E j \in 1..call.k : analysis.clusterSummaries[j].count >= 2

\* C9: the summary of a cluster id that ends with no members has count 0 and
\* the value 0 for every feature.
C9_EmptyClusterZero ==
    (DoneWith("performClustering") /\ analysis.status = "ok") =>
        \A j \in DOMAIN analysis.clusterSummaries :
            analysis.clusterSummaries[j].count = 0 =>
                \A f \in DOMAIN analysis.clusterSummaries[j].characteristics :
                    analysis.clusterSummaries[j].characteristics[f] = Num(0)

\* the rows of the dataset agree on the feature
ConstantFeature(d, feature) ==
    \A r1, r2 \in DOMAIN d :
        NumberOrZero(d[r1][feature]) = NumberOrZero(d[r2][feature])

C13_RepeatableClustering ==
    [][(pc = "done" /\ pc' = "repeated" /\ analysis.status = "ok") =>
          /\ analysis'.status = "ok"
          /\ \A index \in DOMAIN data :
                analysis'.clusters[index].cluster = analysis.clusters[index].cluster
          /\ analysis'.centroids = analysis.centroids]_vars

\* the position of a key among the keys of a record
KeyPosition(key) == CHOOSE p \in DOMAIN KeyOrder : KeyOrder[p] = key

\* the numbers a feature contributes, a value that is not a number counting 0
CoercedColumn(d, feature) ==
    {IF d[r][feature].t = "number" THEN d[r][feature].v ELSE 0 : r \in DOMAIN d}

\* a number scaled by the minimum and maximum of its column
ScaledInColumn(val, column) ==
    IF SetMax(column) = SetMin(column) THEN 0
    ELSE Quot((val - SetMin(column)) * Scale, SetMax(column) - SetMin(column))

\* C14: the features are the keys of the first record that are not excluded
\* and hold a number there, in key order, whatever later records hold; a value
\* that is not a number enters the minimum, the maximum and its own entry as 0.
C14_FeaturesFromFirstRecord ==
    DoneWith("normalizeData") =>
        /\ \A key \in Range(KeyOrder) :
              key \in Range(normRet.features) <=>
                  (key \notin exclude /\ data[1][key].t = "number")
        /\ \A i, j \in DOMAIN normRet.features :
              i < j => KeyPosition(normRet.features[i]) <
                       KeyPosition(normRet.features[j])
        /\ \A r \in DOMAIN data : \A i \in DOMAIN normRet.features :
              data[r][normRet.features[i]].t # "number" =>
                  normRet.normalized[r][i] =
                      ScaledInColumn(0, CoercedColumn(data, normRet.features[i]))

\* C14 happens: b is text on the first record and a number on a later one, so
\* only a is a feature; a is text or missing on a later record, which makes 0
\* the minimum of the column and lifts the first record's entry above 0
C14_Witness ==
    /\ DoneWith("normalizeData")
    /\ exclude = {"id"}
    /\ data[1]["b"] = Text
    /\ \E r \in DOMAIN data : data[r]["b"].t = "number"
    /\ normRet.features = <<"a">>
    /\ \E r \in DOMAIN data :
          /\ data[r]["a"].t # "number"
          /\ normRet.normalized[r][1] = 0
    /\ normRet.normalized[1][1] > 0

\* C17: normalizeData returns one row per record, in the order of the records,
\* and every row has one entry per selected feature.
C17_OneRowPerRecord ==
    DoneWith("normalizeData") =>
        /\ Len(normRet.normalized) = Len(data)
        /\ \A r \in DOMAIN data :
              /\ Len(normRet.normalized[r]) = Len(normRet.features)
              /\ \A i \in DOMAIN normRet.features :
                    normRet.normalized[r][i] =
                        ScaledInColumn(
                            IF data[r][normRet.features[i]].t = "number"
                            THEN data[r][normRet.features[i]].v ELSE 0,
                            CoercedColumn(data, normRet.features[i]))

\* C17 happens: three records over two features whose rows all differ
C17_Witness ==
    /\ DoneWith("normalizeData")
    /\ Len(data) = 3
    /\ Len(normRet.features) = 2
    /\ Len(normRet.normalized) = 3
    /\ normRet.normalized[1] # normRet.normalized[2]
    /\ normRet.normalized[2] # normRet.normalized[3]
    /\ normRet.normalized[1] # normRet.normalized[3]

\* what each record adds to the total of a feature within a cluster: its
\* original value if it is a member holding a number, otherwise 0
Contributions(d, results, clusterId, feature) ==
    [r \in DOMAIN d |->
        IF results[r].cluster = clusterId /\ d[r][feature].t = "number"
        THEN d[r][feature].v ELSE 0]

\* C15: each characteristic of the summary of a cluster with members is the
\* arithmetic mean over the members of the original values of the feature,
\* text and missing values counting 0; normalized values play no part.
C15_MeanOfOriginalValues ==
    (DoneWith("performClustering") /\ analysis.status = "ok") =>
        \A j \in DOMAIN analysis.clusterSummaries :
            LET summary == analysis.clusterSummaries[j]
            IN  summary.count >= 1 =>
                    \A f \in DOMAIN summary.characteristics :
                        /\ ~summary.characteristics[f].nan
                        /\ summary.characteristics[f].v * summary.count =
                              Scale * SumSeq(Contributions(data, analysis.clusters,
                                                           summary.clusterId, f))

\* C15 happens: a cluster of several records in which a is 1 throughout (its
\* normalized value is 0, its mean 1) and b is text on some member (its mean
\* lies strictly between 0 and 1)
C15_Witness ==
    /\ DoneWith("performClustering")
    /\ analysis.status = "ok"
    /\ \A r \in DOMAIN data : data[r]["a"] = Number_(1)
    /\ \E j \in DOMAIN analysis.clusterSummaries :
          LET summary == analysis.clusterSummaries[j]
          IN  /\ summary.count >= 2
              /\ DOMAIN summary.characteristics = {"a", "b"}
              /\ summary.characteristics["a"] = Num(Scale)
              /\ \E r \in DOMAIN data :
                    /\ analysis.clusters[r].cluster = summary.clusterId
                    /\ data[r]["b"] = Text
                    /\ analysis.clusters[r].centroid[1] = 0
              /\ summary.characteristics["b"].v > 0
              /\ summary.characteristics["b"].v < Scale

\* C16: the summary of cluster id i carries the name and the color at
\* position i mod the catalog's length; each catalog has at least 8 entries
\* and the entries for ids 0..7 differ pairwise, so the summaries of one
\* analysis with k in 2..8 have pairwise distinct names and colors.
C16_NameAndColorByClusterId ==
    (DoneWith("performClustering") /\ analysis.status = "ok") =>
        /\ \A j \in DOMAIN analysis.clusterSummaries :
              LET summary == analysis.clusterSummaries[j]
              IN  /\ summary.clusterId = j - 1
                  /\ summary.name =
                        CLUSTER_NAMES[(summary.clusterId % Len(CLUSTER_NAMES)) + 1]
                  /\ summary.color =
                        CLUSTER_COLORS[(summary.clusterId % Len(CLUSTER_COLORS)) + 1]
        /\ Len(CLUSTER_NAMES) >= 8
        /\ Len(CLUSTER_COLORS) >= 8
        /\ \A i, j \in 0..7 :
              i # j =>
                  /\ CLUSTER_NAMES[(i % Len(CLUSTER_NAMES)) + 1] #
                     CLUSTER_NAMES[(j % Len(CLUSTER_NAMES)) + 1]
                  /\ CLUSTER_COLORS[(i % Len(CLUSTER_COLORS)) + 1] #
                     CLUSTER_COLORS[(j % Len(CLUSTER_COLORS)) + 1]
        /\ \A i, j \in DOMAIN analysis.clusterSummaries :
              (call.k \in 2..8 /\ i # j) =>
                  /\ analysis.clusterSummaries[i].name #
                     analysis.clusterSummaries[j].name
                  /\ analysis.clusterSummaries[i].color #
                     analysis.clusterSummaries[j].color

\* C16 happens: an analysis with k = 3 has returned three summaries
C16_Witness ==
    /\ DoneWith("performClustering")
    /\ analysis.status = "ok"
    /\ call.k = 3
    /\ Len(analysis.clusterSummaries) = 3
    /\ analysis.clusterSummaries[3].name = CLUSTER_NAMES[3]
    /\ analysis.clusterSummaries[3].color = CLUSTER_COLORS[3]

\* a line of a file holds a value
NonEmptyLine(row) == \E key \in DOMAIN row : row[key].t # "blank"

\* a file passes the checks: it parses, at least 2 of its lines hold a value,
\* and the first of these has numbers in at least 2 columns other than id
Acceptable(file) ==
    LET lines == SelectSeq(file.rows, NonEmptyLine)
    IN  /\ file.csv
        /\ file.readable
        /\ ~file.errors
        /\ Len(lines) >= 2
        /\ Cardinality({key \in {"a", "b"} : lines[1][key].t = "digits"}) >= 2

\* C19: only .csv files are parsed; the callback of a parse schedules the
\* hand-off of one record per non-empty line when the file passes the checks,
\* and otherwise shows an error and schedules nothing; a file that is not even
\* parsed gets an error; every hand-off pending holds at least 2 records with
\* at least 2 numeric columns other than id on the first.
C19_HandOffOnlyAfterChecks ==
    /\ [](/\ \A j \in DOMAIN parses : parses[j].file.csv
          /\ \A i \in DOMAIN timers :
                /\ Len(timers[i]) >= 2
                /\ Cardinality({key \in {"a", "b"} :
                                    timers[i][1][key].t = "number"}) >= 2)
    /\ [][/\ Len(parses') < Len(parses) =>
                \E j \in DOMAIN parses :
                    /\ parses' = Remove(parses, j)
                    /\ IF Acceptable(parses[j].file)
                       THEN /\ Len(timers') = Len(timers) + 1
                            /\ Len(timers'[Len(timers')]) =
                                  Len(SelectSeq(parses[j].file.rows, NonEmptyLine))
                       ELSE /\ timers' = timers
                            /\ error' # NoMessage
          /\ Len(parses') >= Len(parses) => Len(timers') <= Len(timers)
          /\ (parses' = parses /\ timers' = timers) => error' # NoMessage]_vars

\* C19 happens: the hand-off of an accepted file is pending while a later file
\* has been rejected for its columns
C19_Witness ==
    /\ Len(timers) = 1
    /\ Len(timers[1]) = 2
    /\ parses = <<>>
    /\ error.text = "CSV must contain at least 2 numeric columns for clustering analysis"

\* C18: every count the cluster-count select offers for n records is at
\* least 2 and at most min(8, n - 1), and performClustering accepts it.
C18_OfferedCountsWithinRange ==
    ControlsShown =>
        \A k \in OfferedCounts(Len(data)) :
            /\ 2 <= k
            /\ k <= Min2(8, Len(data) - 1)
            /\ EnoughData(Len(data), k)

\* C20: whenever the Dashboard is rendered it has an analysis.
C20_DashboardHasAnalysis ==
    ~Mounted => analysis.status = "ok"

\* C21: in a rendered Dashboard selectedCluster is null or a cluster id of the
\* current analysis, at least 0 and below clusterCount.
C21_SelectedClusterExists ==
    ~Mounted =>
        \/ selectedCluster = Null
        \/ /\ selectedCluster.t = "number"
           /\ 0 <= selectedCluster.v
           /\ selectedCluster.v < clusterCount

\* C22: the error message and the success message of FileUpload are never
\* both set.
C22_NeverBothMessages ==
    ~(error # NoMessage /\ success # NoMessage)

\* C23: data is set only by a hand-off timer, which fires once, and while the
\* Dashboard is showing data changes only to null, by reset.
C23_HandOffOnlyFromUploadScreen ==
    [][/\ (data' # data /\ data' # NoData) =>
              /\ timers # <<>>
              /\ data' = Head(timers)
              /\ timers' = Tail(timers)
       /\ ~Mounted => (data' = data \/ data' = NoData)]_vars

=============================================================================
